---- MODULE Spec2Model ----
(***************************************************************************)
(* Model of the text layout and pagination engine of simple_bot.py:        *)
(* create_text_image and the helpers it calls.                             *)
(*                                                                         *)
(* Text is a sequence of one-character strings.  Pillow's text measurement *)
(* is modelled as additive over characters and linear in the font size;    *)
(* widths are kept in quarter pixels so that every comparison of the code  *)
(* is exact in integers.                                                   *)
(***************************************************************************)
EXTENDS Integers, Sequences, FiniteSets, TLC

\* ------------------------------------------------------------------------
\* Program constants (simple_bot.py:26-31)
\* ------------------------------------------------------------------------
DEFAULT_FONT_SIZE == 90
MIN_FONT_SIZE == 80
MAX_FONT_SIZE == 110
MAX_IMAGES == 4

\* ------------------------------------------------------------------------
\* Python string primitives on sequences of characters
\* ------------------------------------------------------------------------
NL == "\n"
SP == " "
DOT == "."

IsWS(c) == c \in {SP, NL}

\* index of the first non-whitespace character of s, Len(s) + 1 if none
FirstNonWS(s) ==
    CHOOSE j \in 1..(Len(s) + 1) :
        /\ j = Len(s) + 1 \/ ~IsWS(s[j])
        /\ \A k \in 1..(j - 1) : IsWS(s[k])

\* index of the last non-whitespace character of s, 0 if none
LastNonWS(s) ==
    LET r == CHOOSE j \in 1..(Len(s) + 1) :
                 /\ j = Len(s) + 1 \/ ~IsWS(s[Len(s) + 1 - j])
                 /\ \A k \in 1..(j - 1) : IsWS(s[Len(s) + 1 - k])
    IN  Len(s) + 1 - r

\* str.lstrip()
LStrip(s) == SubSeq(s, FirstNonWS(s), Len(s))

\* str.strip()
Strip(s) == SubSeq(s, FirstNonWS(s), LastNonWS(s))

RECURSIVE SplitRange(_, _, _, _)
\* the pieces of s[lo..hi] between the characters of seps, empty pieces kept;
\* the range is halved so that long texts do not nest deeply
SplitRange(s, seps, lo, hi) ==
    IF lo > hi THEN << <<>> >>
    ELSE IF lo = hi THEN (IF s[lo] \in seps THEN << <<>>, <<>> >> ELSE << <<s[lo]>> >>)
    ELSE LET mid == (lo + hi) \div 2
             l   == SplitRange(s, seps, lo, mid)
             r   == SplitRange(s, seps, mid + 1, hi)
         IN  SubSeq(l, 1, Len(l) - 1) \o << l[Len(l)] \o r[1] >> \o SubSeq(r, 2, Len(r))

\* str.split(c) for a one-character separator: empty pieces are kept
Split(s, c) == SplitRange(s, {c}, 1, Len(s))

NonEmpty(p) == p # <<>>

\* str.split() without argument: runs of whitespace separate, no empty piece
SplitWS(s) == SelectSeq(SplitRange(s, {SP, NL}, 1, Len(s)), NonEmpty)

RECURSIVE JoinRange(_, _, _, _)
JoinRange(parts, sep, lo, hi) ==
    IF lo > hi THEN <<>>
    ELSE IF lo = hi THEN parts[lo]
    ELSE LET mid == (lo + hi) \div 2
         IN  JoinRange(parts, sep, lo, mid) \o sep \o JoinRange(parts, sep, mid + 1, hi)

\* sep.join(parts)
Join(parts, sep) == JoinRange(parts, sep, 1, Len(parts))

\* str.endswith('.')
EndsWithDot(s) == Len(s) > 0 /\ s[Len(s)] = DOT

\* [p.strip() for p in parts if p.strip()]
StripNonEmpty(parts) == SelectSeq([i \in 1..Len(parts) |-> Strip(parts[i])], NonEmpty)

\* seq[::-1]
Reverse(q) == [i \in 1..Len(q) |-> q[Len(q) + 1 - i]]

\* the sentence-order reversal shared by process_arabic_text and the renderer
ReverseSentences(s) ==
    LET sentences == StripNonEmpty(Split(s, DOT))
        rtl_text  == Join(Reverse(sentences), <<DOT, SP>>)
    IN  IF EndsWithDot(s) THEN Append(rtl_text, DOT) ELSE rtl_text

process_arabic_text(text) ==
    LET stripped_text      == LStrip(text)
        leading_whitespace == SubSeq(text, 1, Len(text) - Len(stripped_text))
    IN  leading_whitespace \o ReverseSentences(stripped_text)

\* ------------------------------------------------------------------------
\* Text measurement (ImageDraw.textlength), in quarter pixels
\* ------------------------------------------------------------------------
CharUnits(c) == IF c \in {SP, DOT} THEN 1 ELSE IF c = NL THEN 0 ELSE 2

RECURSIVE UnitsRange(_, _, _)
UnitsRange(s, lo, hi) ==
    IF lo > hi THEN 0
    ELSE IF lo = hi THEN CharUnits(s[lo])
    ELSE LET mid == (lo + hi) \div 2
         IN  UnitsRange(s, lo, mid) + UnitsRange(s, mid + 1, hi)

\* 4 * draw.textlength(s, font) for a font of the given size
textlength(s, size) == UnitsRange(s, 1, Len(s)) * size

\* ------------------------------------------------------------------------
\* Fonts: a font object is modelled by its size (get_font(size).size)
\* ------------------------------------------------------------------------
\* int(font_size * 1.2)
TitleFontSize(font_size) == (font_size * 6) \div 5

\* int(font.size * 1.5)
LineHeightOf(size) == (size * 3) \div 2

\* ------------------------------------------------------------------------
\* justify_line
\* ------------------------------------------------------------------------
\* ' ' * n
Spaces(n) == [i \in 1..n |-> SP]

RECURSIVE SumWidths(_, _, _)
\* sum(draw_obj.textlength(word, font) for word in words), from word i on
SumWidths(words, i, font) ==
    IF i > Len(words) THEN 0
    ELSE textlength(words[i], font) + SumWidths(words, i + 1, font)

\* the remainder goes to one gap fewer
GapSpaces_Strict(i, extra_spaces_per_gap, extra_spaces_remainder) ==
    Spaces(1 + extra_spaces_per_gap + (IF i < extra_spaces_remainder THEN 1 ELSE 0))

\* lines 184-187: the spaces put before words[i] (i counted from 0)
GapSpaces(i, extra_spaces_per_gap, extra_spaces_remainder) ==
    Spaces(1 + extra_spaces_per_gap + (IF i <= extra_spaces_remainder THEN 1 ELSE 0))

\* the list starts with the last word
JustifiedWords_LastFirst(words, extra_spaces_per_gap, extra_spaces_remainder) ==
    [k \in 1..Len(words) |->
        IF k = 1 THEN words[Len(words)]
        ELSE GapSpaces(k - 1, extra_spaces_per_gap, extra_spaces_remainder) \o words[k]]

\* lines 181-188: justified_words
JustifiedWords(words, extra_spaces_per_gap, extra_spaces_remainder) ==
    [k \in 1..Len(words) |->
        IF k = 1 THEN words[1]
        ELSE GapSpaces(k - 1, extra_spaces_per_gap, extra_spaces_remainder) \o words[k]]

\* justify_line(words, font, target_width, draw_obj); target_width in
\* quarter pixels like every width
justify_line(words, font, target_width) ==
    IF Len(words) <= 1 THEN Join(words, <<SP>>)
    ELSE LET words_width         == SumWidths(words, 1, font)
             normal_spaces_width == (Len(words) - 1) * textlength(<<SP>>, font)
             extra_space_needed  == target_width - words_width - normal_spaces_width
             space_char_width    == textlength(<<SP>>, font)
             extra_spaces_total  == extra_space_needed \div space_char_width
             gaps                == Len(words) - 1
         IN  IF extra_space_needed <= 0 THEN Join(words, <<SP>>)
             ELSE IF space_char_width > 0 /\ gaps > 0
                  THEN Join(JustifiedWords(words, extra_spaces_total \div gaps,
                                           extra_spaces_total % gaps), <<>>)
                  ELSE Join(words, <<SP>>)

\* ------------------------------------------------------------------------
\* parse_title_and_text
\* ------------------------------------------------------------------------
\* the body keeps the newlines it begins with
parse_title_and_text_Unstripped(input_text) ==
    LET lines      == Split(Strip(input_text), NL)
        title      == Strip(lines[1])
        body_lines == SubSeq(lines, 2, Len(lines))
        body_text  == Join(body_lines, <<NL>>)
    IN  [title |-> title, body |-> body_text]

parse_title_and_text(input_text) ==
    LET lines      == Split(Strip(input_text), NL)
        title      == Strip(lines[1])
        body_lines == SubSeq(lines, 2, Len(lines))
        body_text  == Strip(Join(body_lines, <<NL>>))
    IN  [title |-> title, body |-> body_text]

\* ------------------------------------------------------------------------
\* get_wrapped_text_and_height
\* ------------------------------------------------------------------------
TitleLine(words, last) ==
    [is_empty |-> FALSE, is_title |-> TRUE, is_last_in_paragraph |-> last, words |-> words]

BodyLine(words, last) ==
    [is_empty |-> FALSE, is_title |-> FALSE, is_last_in_paragraph |-> last, words |-> words]

\* the entry of an empty line; the code's dict has no 'words' key, and every
\* reader uses .get('words', [])
EmptyLine ==
    [is_empty |-> TRUE, is_title |-> FALSE, is_last_in_paragraph |-> TRUE, words |-> <<>>]

\* test_width <= title_max_width or not current_title_line
TitleWordFits(current_title_line, word, title_size, title_max_width) ==
    \/ textlength(Join(Append(current_title_line, word), <<SP>>), title_size) <= 4 * title_max_width
    \/ current_title_line = <<>>

RECURSIVE WrapTitleFrom(_, _, _, _, _, _)
\* the loop over title_words, then "add the last title line"
WrapTitleFrom(title_words, i, current_title_line, acc, title_size, title_max_width) ==
    IF i > Len(title_words)
    THEN IF current_title_line # <<>> THEN Append(acc, TitleLine(current_title_line, TRUE)) ELSE acc
    ELSE IF TitleWordFits(current_title_line, title_words[i], title_size, title_max_width)
         THEN WrapTitleFrom(title_words, i + 1, Append(current_title_line, title_words[i]), acc,
                            title_size, title_max_width)
         ELSE WrapTitleFrom(title_words, i + 1, <<title_words[i]>>,
                            Append(acc, TitleLine(current_title_line, FALSE)),
                            title_size, title_max_width)

\* the test measures the current line without the word to be added
BodyWordFits_WithoutWord(current_line_words, word, size, max_width) ==
    textlength(process_arabic_text(Join(current_line_words, <<SP>>)), size) <= 4 * max_width

\* the test refuses a line that fills the width exactly
BodyWordFits_Strict(current_line_words, word, size, max_width) ==
    textlength(process_arabic_text(Join(Append(current_line_words, word), <<SP>>)), size) < 4 * max_width

\* test_width <= max_width, test_width measured on the processed test line
BodyWordFits(current_line_words, word, size, max_width) ==
    textlength(process_arabic_text(Join(Append(current_line_words, word), <<SP>>)), size) <= 4 * max_width

\* a new line that starts empty: the rejected word is lost
StartNewLine_Drop(word) == <<>>

\* current_line_words = [word] after a line is closed
StartNewLine(word) == <<word>>

RECURSIVE WrapWordsFrom(_, _, _, _, _, _)
\* the loop over words[1:], then "add the last line of this paragraph"
WrapWordsFrom(words, i, current_line_words, acc, size, max_width) ==
    IF i > Len(words)
    THEN IF current_line_words # <<>> THEN Append(acc, BodyLine(current_line_words, TRUE)) ELSE acc
    ELSE IF BodyWordFits(current_line_words, words[i], size, max_width)
         THEN WrapWordsFrom(words, i + 1, Append(current_line_words, words[i]), acc, size, max_width)
         ELSE WrapWordsFrom(words, i + 1, StartNewLine(words[i]),
                            Append(acc, BodyLine(current_line_words, FALSE)), size, max_width)

\* one iteration of "for paragraph in paragraphs"
WrapParagraph(paragraph, size, max_width) ==
    IF Strip(paragraph) = <<>> THEN <<EmptyLine>>
    ELSE LET words == Split(paragraph, SP)
         IN  WrapWordsFrom(words, 2, <<words[1]>>, <<>>, size, max_width)

RECURSIVE WrapParagraphsFrom(_, _, _, _)
WrapParagraphsFrom(paragraphs, i, size, max_width) ==
    IF i > Len(paragraphs) THEN <<>>
    ELSE WrapParagraph(paragraphs[i], size, max_width)
         \o WrapParagraphsFrom(paragraphs, i + 1, size, max_width)

\* int(width * 0.7); the canvases below avoid the widths where the float
\* product falls just under the integer
TitleMaxWidth(width) == (width * 7) \div 10

\* the title block: the wrapped title lines and the empty line after them
WrapTitleBlock(title_part, title_size, width) ==
    IF title_part = <<>> THEN <<>>
    ELSE Append(WrapTitleFrom(SplitWS(title_part), 1, <<>>, <<>>, title_size, TitleMaxWidth(width)),
                EmptyLine)

WrapBody(body_part, size, max_width) ==
    IF body_part = <<>> THEN <<>>
    ELSE WrapParagraphsFrom(Split(body_part, NL), 1, size, max_width)

\* the height slot the wrapper budgets for one line
SlotHeight(line_inf, line_height, title_line_height) ==
    IF line_inf.is_title THEN title_line_height ELSE line_height

RECURSIVE SumSlots(_, _, _, _)
SumSlots(line_info, i, line_height, title_line_height) ==
    IF i > Len(line_info) THEN 0
    ELSE SlotHeight(line_info[i], line_height, title_line_height)
         + SumSlots(line_info, i + 1, line_height, title_line_height)

get_wrapped_text_and_height(text, font, title_font, max_width, width) ==
    LET parsed            == parse_title_and_text(text)
        line_info         == WrapTitleBlock(parsed.title, title_font, width)
                             \o WrapBody(parsed.body, font, max_width)
        lines             == [i \in 1..Len(line_info) |-> Join(line_info[i].words, <<SP>>)]
        line_height       == LineHeightOf(font)
        title_line_height == IF parsed.title # <<>> THEN LineHeightOf(title_font) ELSE line_height
    IN  [lines |-> lines,
         total_text_height |-> SumSlots(line_info, 1, line_height, title_line_height),
         line_height |-> line_height,
         line_info |-> line_info]

\* ------------------------------------------------------------------------
\* Inputs
\* ------------------------------------------------------------------------
\* most paragraphs a body is built from
MaxParas == 4

\* most characters of a body
MaxBodyLen == 13

\* words per paragraph of a long document
ParaWords == 20

\* n one-letter words, ParaWords to a paragraph
WordsOf(n) ==
    [i \in 1..(2 * n - 1) |->
        IF i % 2 = 1 THEN "a"
        ELSE IF (i \div 2) % ParaWords = 0 THEN NL ELSE SP]

Paragraphs ==
    { <<>>,
      <<"w", "w", "w", "w">>,
      <<"b", SP, "c">>,
      <<"d", DOT, SP, "e", SP, SP, "f">> }

RECURSIVE BodiesOf(_)
\* the bodies of exactly n paragraphs and at most MaxBodyLen characters
BodiesOf(n) ==
    IF n = 1 THEN { p \in Paragraphs : Len(p) <= MaxBodyLen }
    ELSE { x \in { b \o <<NL>> \o p : b \in BodiesOf(n - 1), p \in Paragraphs } :
             Len(x) <= MaxBodyLen }

Bodies == UNION { BodiesOf(n) : n \in 1..MaxParas }

Titles == { <<>>, <<"t">>, <<"u", SP, "v">> }

\* documents around the word-count bands of the initial font size
LongDocs ==
    { [title |-> <<"t">>, text |-> WordsOf(n)] : n \in {98, 99, 198, 199} }

ShortDocs == { [title |-> t, text |-> b] : t \in Titles, b \in Bodies }

\* background images: the size of image/image_1.jpg
NarrowCanvas == [w |-> 100, h |-> 400]
WideCanvas == [w |-> 205, h |-> 600]
FlatCanvas == [w |-> 100, h |-> 200]
LargeCanvas == [w |-> 1080, h |-> 1920]
MediumCanvas == [w |-> 500, h |-> 1320]

BroadCanvas == [w |-> 420, h |-> 600]

\* the size used when the background image cannot be opened (line 285)
FallbackCanvas == [w |-> 800, h |-> 600]

\* the documents of at most one paragraph
TinyDocs == { d \in ShortDocs : \A i \in 1..Len(d.text) : d.text[i] # NL }

\* documents whose lines leave room for an indent and for added spaces
IndentDocs ==
    { [title |-> t, text |-> b] :
        t \in { <<>>, <<"t">>, <<SP>>, <<"u", NL, "v">> },
        b \in { <<"b", SP, "c", SP, "w", "w", "w", "w">>,
                <<"b", SP, "c", NL, "b", SP, "c", SP, "w", "w", "w", "w">>,
                <<"b", SP, "c", NL, NL, "b", SP, "c", SP, "w", "w", "w", "w">> } }

Inputs ==
    { [doc |-> d, canvas |-> c, bg |-> "ok"] : d \in ShortDocs, c \in {NarrowCanvas, WideCanvas} }
    \cup { [doc |-> d, canvas |-> c, bg |-> "ok"] : d \in LongDocs, c \in {LargeCanvas, MediumCanvas} }
    \cup { [doc |-> d, canvas |-> FlatCanvas, bg |-> "ok"] : d \in TinyDocs }
    \cup { [doc |-> d, canvas |-> BroadCanvas, bg |-> "ok"] : d \in IndentDocs }
    \cup { [doc |-> d, canvas |-> FallbackCanvas, bg |-> b] : d \in TinyDocs, b \in {"missing", "corrupt"} }

\* ------------------------------------------------------------------------
\* State of one call of create_text_image
\* ------------------------------------------------------------------------
VARIABLES
    title,               \* argument title
    text,                \* argument text
    bg,                  \* image/image_1.jpg: "ok", "missing" or "corrupt"
    canvas,              \* the size of the background image file
    pc,                  \* position in create_text_image
    width, height,       \* canvas size in use
    font_size,           \* the search variable
    font,                \* size of the body font object
    wrapped_lines, total_text_height, line_height, line_info,
    max_lines_per_image,
    image_lines,         \* the page chunks
    img_index,           \* next page to render
    output_paths,        \* one entry per saved image: what was drawn on it
    outcome              \* "running", "returned" or "raised"

\* State of one call of justify_line
VARIABLES
    justify_args,        \* [words, font, target_width] of the call
    justify_pc,          \* "idle", "called" or "returned"
    justified_line       \* the string returned

\* State of the bot: handle_message and the polling loop of main
VARIABLES
    user_states,         \* chat_id -> the dict stored for it, Absent if no key
    server,              \* the updates the server holds, in update_id order
    last_update_id,      \* the offset of main, None before the first update
    batch,               \* what is left of updates['result'] in the for loop
    main_pc,             \* "idle", "poll" or "iterate"
    handled,             \* update_ids in the order the loop took them up
    calls                \* the calls of create_text_image, in order

layoutVars == <<title, text, bg, canvas, pc, width, height, font_size, font,
                wrapped_lines, total_text_height, line_height, line_info,
                max_lines_per_image, image_lines, img_index, output_paths, outcome>>

justifyVars == <<justify_args, justify_pc, justified_line>>

botVars == <<user_states, server, last_update_id, batch, main_pc, handled, calls>>

vars == <<layoutVars, justifyVars, botVars>>

inputVars == <<title, text, bg, canvas>>
wrapVars == <<wrapped_lines, total_text_height, line_height, line_info>>
pageVars == <<max_lines_per_image, image_lines, img_index, output_paths>>

\* full_text = title; if body_text: full_text += '\n\n' + body_text
full_text == IF text # <<>> THEN title \o <<NL, NL>> \o text ELSE title

right_padding == width \div 10
left_padding == width \div 10
top_padding == height \div 4
bottom_padding == height \div 5
max_text_width == width - (right_padding + left_padding)
max_text_height_per_image == height - (top_padding + bottom_padding)

\* bands whose first boundary is off by one
InitialFontSize_Inclusive(word_count) ==
    IF word_count <= 100 THEN MAX_FONT_SIZE
    ELSE IF word_count < 200 THEN DEFAULT_FONT_SIZE
    ELSE MIN_FONT_SIZE

\* the font size the search starts from (lines 293-301)
InitialFontSize(word_count) ==
    IF word_count < 100 THEN MAX_FONT_SIZE
    ELSE IF word_count < 200 THEN DEFAULT_FONT_SIZE
    ELSE MIN_FONT_SIZE

\* (total_text_height + max_text_height_per_image - 1) // max_text_height_per_image
total_images_needed(total, per_image) == (total + per_image - 1) \div per_image

\* no call of justify_line on its own is under way
JustifyIdle ==
    /\ justify_args = [words |-> <<>>, font |-> 0, target_width |-> 0]
    /\ justify_pc = "idle"
    /\ justified_line = <<>>

\* the polling loop is not running
BotIdle ==
    /\ user_states = <<>>
    /\ server = <<>>
    /\ last_update_id = 0
    /\ batch = <<>>
    /\ main_pc = "idle"
    /\ handled = <<>>
    /\ calls = <<>>

Init ==
    /\ \E in \in Inputs :
         /\ title = in.doc.title
         /\ text = in.doc.text
         /\ bg = in.bg
         /\ canvas = in.canvas
    /\ pc = "start"
    /\ width = 0 /\ height = 0
    /\ font_size = 0 /\ font = 0
    /\ wrapped_lines = <<>> /\ total_text_height = 0 /\ line_height = 0 /\ line_info = <<>>
    /\ max_lines_per_image = 0 /\ image_lines = <<>> /\ img_index = 0 /\ output_paths = <<>>
    /\ outcome = "running"
    /\ JustifyIdle
    /\ BotIdle

\* lines 271-275: the background image is missing
BackgroundMissing ==
    /\ pc = "start"
    /\ bg = "missing"
    /\ pc' = "done"
    /\ outcome' = "returned"
    /\ UNCHANGED <<inputVars, width, height, font_size, font, wrapVars, pageVars>>
    /\ UNCHANGED <<justifyVars, botVars>>

\* lines 277-312: open the background, pick the initial font size, paddings
OpenBackground ==
    /\ pc = "start"
    /\ bg # "missing"
    /\ LET size == IF bg = "ok" THEN canvas ELSE FallbackCanvas
           fs   == InitialFontSize(Len(SplitWS(full_text)))
       IN  /\ width' = size.w
           /\ height' = size.h
           /\ font_size' = fs
           /\ font' = fs
           /\ pc' = IF fs > MIN_FONT_SIZE THEN "loop" ELSE "check"
    /\ UNCHANGED <<inputVars, wrapVars, pageVars, outcome>>
    /\ UNCHANGED <<justifyVars, botVars>>

\* lines 411-424: one iteration of the font size search
TrySize ==
    /\ pc = "loop"
    /\ LET w == get_wrapped_text_and_height(full_text, font_size, TitleFontSize(font_size),
                                            max_text_width, width)
           fits == total_images_needed(w.total_text_height, max_text_height_per_image) <= MAX_IMAGES
       IN  /\ font' = font_size
           /\ wrapped_lines' = w.lines
           /\ total_text_height' = w.total_text_height
           /\ line_height' = w.line_height
           /\ line_info' = w.line_info
           /\ font_size' = IF fits THEN font_size ELSE font_size - 1
           /\ pc' = IF fits \/ ~(font_size - 1 > MIN_FONT_SIZE) THEN "check" ELSE "loop"
    /\ UNCHANGED <<inputVars, width, height, pageVars, outcome>>
    /\ UNCHANGED <<justifyVars, botVars>>

\* if font_size <= MIN_FONT_SIZE (line 427)
AtMinimum(fs) == fs <= MIN_FONT_SIZE

\* a limit that lets one page too many through
TooLong_OneMore(needed) == needed > MAX_IMAGES + 1

\* if total_images_needed > MAX_IMAGES (line 435)
TooLong(needed) == needed > MAX_IMAGES

\* lines 426-437: the search ended at the minimum size: wrap again there
CheckMinimum ==
    /\ pc = "check"
    /\ AtMinimum(font_size)
    /\ LET w == get_wrapped_text_and_height(full_text, MIN_FONT_SIZE, TitleFontSize(MIN_FONT_SIZE),
                                            max_text_width, width)
           too_long == TooLong(total_images_needed(w.total_text_height, max_text_height_per_image))
       IN  /\ font' = MIN_FONT_SIZE
           /\ wrapped_lines' = w.lines
           /\ total_text_height' = w.total_text_height
           /\ line_height' = w.line_height
           /\ line_info' = w.line_info
           /\ pc' = IF too_long THEN "done" ELSE "paginate"
           /\ outcome' = IF too_long THEN "returned" ELSE outcome
    /\ UNCHANGED <<inputVars, width, height, font_size, pageVars>>
    /\ UNCHANGED <<justifyVars, botVars>>

\* line 427 false: a size above the minimum was accepted
SkipMinimum ==
    /\ pc = "check"
    /\ ~AtMinimum(font_size)
    /\ pc' = "paginate"
    /\ UNCHANGED <<inputVars, width, height, font_size, font, wrapVars, pageVars, outcome>>
    /\ UNCHANGED <<justifyVars, botVars>>

RECURSIVE Chunks(_, _, _)
\* [lines[i:i + n] for i in range(0, len(lines), n)], from index i (1-based)
Chunks(lines, i, n) ==
    IF i > Len(lines) THEN <<>>
    ELSE LET last == IF i + n - 1 < Len(lines) THEN i + n - 1 ELSE Len(lines)
         IN  <<SubSeq(lines, i, last)>> \o Chunks(lines, i + n, n)

\* a slice that keeps one chunk too many
LimitImages_OneMore(chunks) ==
    IF Len(chunks) > MAX_IMAGES THEN SubSeq(chunks, 1, MAX_IMAGES + 1) ELSE chunks

\* image_lines = image_lines[:MAX_IMAGES] if len(image_lines) > MAX_IMAGES
LimitImages(chunks) ==
    IF Len(chunks) > MAX_IMAGES THEN SubSeq(chunks, 1, MAX_IMAGES) ELSE chunks

\* lines 439-449: split the wrapped lines across images
Paginate ==
    /\ pc = "paginate"
    /\ (height - (top_padding + bottom_padding)) \div line_height > 0
    /\ max_lines_per_image' = (height - (top_padding + bottom_padding)) \div line_height
    /\ image_lines' = LimitImages(Chunks(wrapped_lines, 1, max_lines_per_image'))
    /\ img_index' = 0
    /\ pc' = "render"
    /\ UNCHANGED <<inputVars, width, height, font_size, font, wrapVars, output_paths, outcome>>
    /\ UNCHANGED <<justifyVars, botVars>>

\* line 444: range() with a zero step raises ValueError
PaginateRaises ==
    /\ pc = "paginate"
    /\ (height - (top_padding + bottom_padding)) \div line_height = 0
    /\ max_lines_per_image' = 0
    /\ pc' = "done"
    /\ outcome' = "raised"
    /\ UNCHANGED <<inputVars, width, height, font_size, font, wrapVars,
                   image_lines, img_index, output_paths>>
    /\ UNCHANGED <<justifyVars, botVars>>

\* the vertical advance after a drawn line (lines 585-589)
Advance(current_line_info, body_font, body_line_height) ==
    IF current_line_info.is_title
    THEN LineHeightOf(TitleFontSize(body_font))
    ELSE body_line_height

\* lines 526-536: the x of a title line, in quarter pixels like line_width
TitleAnchor(line_width) ==
    LET available_width == width - left_padding - right_padding
        x_position == 4 * left_padding + 4 * ((4 * available_width - line_width) \div 8)
    IN  IF x_position < 4 * left_padding THEN 4 * left_padding
        ELSE IF x_position + line_width > 4 * (width - right_padding)
             THEN 4 * (width - right_padding) - line_width
             ELSE x_position

\* lines 539-549; global_line_idx counts from 1 here, from 0 in the code
IsFirstLineOfParagraph(current_line_info, global_line_idx) ==
    /\ ~current_line_info.is_title
    /\ ~current_line_info.is_empty
    /\ global_line_idx > 1
    /\ \/ line_info[global_line_idx - 1].is_empty
       \/ line_info[global_line_idx - 1].is_title

\* lines 552-554: img_draw.textlength('    ', current_font)
IndentWidth(is_first_line_of_paragraph, current_font) ==
    IF is_first_line_of_paragraph THEN textlength(<<SP, SP, SP, SP>>, current_font) ELSE 0

\* lines 571-580: the x of a line that is not justified
RightAnchor(line_width, is_first_line_of_paragraph, indent_width) ==
    LET x_position == 4 * (width - right_padding) - line_width
        clamped    == IF x_position < 4 * left_padding THEN 4 * left_padding ELSE x_position
        indented   == clamped - indent_width
    IN  IF ~is_first_line_of_paragraph THEN clamped
        ELSE IF indented < 4 * left_padding THEN 4 * left_padding ELSE indented

\* line 558: the branch that justifies
TakesJustifyBranch(current_line_info) ==
    ~current_line_info.is_last_in_paragraph /\ Len(current_line_info.words) > 1

\* the indent is not taken off the width
JustifiedWidth_Full(is_first_line_of_paragraph, indent_width) ==
    4 * (width - left_padding - right_padding)

\* lines 560-562: justified_width
JustifiedWidth(is_first_line_of_paragraph, indent_width) ==
    4 * (width - left_padding - right_padding)
    - (IF is_first_line_of_paragraph THEN indent_width ELSE 0)

\* lines 501-583 for one line that is drawn: the text handed to
\* img_draw.text, its x, and how they were decided
PlaceLine(line, current_line_info, global_line_idx) ==
    LET bidi_line    == ReverseSentences(line)
        current_font == IF current_line_info.is_title THEN TitleFontSize(font) ELSE font
        line_width   == textlength(bidi_line, current_font)
        first        == IsFirstLineOfParagraph(current_line_info, global_line_idx)
        indent_width == IndentWidth(first, current_font)
        words        == SplitWS(bidi_line)
    IN  IF current_line_info.is_title
        THEN [text |-> bidi_line, x |-> TitleAnchor(line_width), line_width |-> line_width,
              first |-> FALSE, indent_width |-> 0, branch |-> "title",
              justified |-> FALSE, justified_width |-> 0]
        ELSE IF TakesJustifyBranch(current_line_info)
        THEN [text |-> IF Len(words) > 1
                       THEN justify_line(words, current_font, JustifiedWidth(first, indent_width))
                       ELSE bidi_line,
              x |-> 4 * left_padding, line_width |-> line_width,
              first |-> first, indent_width |-> indent_width, branch |-> "justify",
              justified |-> Len(words) > 1,
              justified_width |-> JustifiedWidth(first, indent_width)]
        ELSE [text |-> bidi_line, x |-> RightAnchor(line_width, first, indent_width),
              line_width |-> line_width,
              first |-> first, indent_width |-> indent_width, branch |-> "right",
              justified |-> FALSE, justified_width |-> 0]

\* a line that is skipped (line 494): nothing is handed to img_draw.text
NotDrawn ==
    [text |-> <<>>, x |-> 0, line_width |-> 0, first |-> FALSE, indent_width |-> 0,
     branch |-> "skip", justified |-> FALSE, justified_width |-> 0]

RECURSIVE RenderLines(_, _, _, _)
\* lines 490-589 for the lines of one image from line_idx on: one entry per
\* line, with the y it is placed at and the slot it takes
RenderLines(current_lines, line_idx, line_start_idx, current_y) ==
    IF line_idx > Len(current_lines) THEN <<>>
    ELSE LET line == current_lines[line_idx]
             global_line_idx == line_start_idx + line_idx
             current_line_info == line_info[global_line_idx]
             drawn == line # <<>>
             slot == IF drawn THEN Advance(current_line_info, font, line_height) ELSE line_height
             current_font == IF drawn /\ current_line_info.is_title
                             THEN TitleFontSize(font) ELSE font
             placed == IF drawn THEN PlaceLine(line, current_line_info, global_line_idx)
                       ELSE NotDrawn
         IN  << [global_line_idx |-> global_line_idx,
                 line |-> line,
                 drawn |-> drawn,
                 is_title |-> drawn /\ current_line_info.is_title,
                 font |-> current_font,
                 y |-> current_y,
                 slot |-> slot,
                 text |-> placed.text,
                 x |-> placed.x,
                 line_width |-> placed.line_width,
                 first |-> placed.first,
                 indent_width |-> placed.indent_width,
                 branch |-> placed.branch,
                 justified |-> placed.justified,
                 justified_width |-> placed.justified_width] >>
             \o RenderLines(current_lines, line_idx + 1, line_start_idx, current_y + slot)

\* lines 454-601: render and save one image
RenderImage ==
    /\ pc = "render"
    /\ img_index < Len(image_lines)
    /\ bg = "ok"
    /\ output_paths' = Append(output_paths,
                              RenderLines(image_lines[img_index + 1], 1,
                                          img_index * max_lines_per_image, top_padding))
    /\ img_index' = img_index + 1
    /\ UNCHANGED <<inputVars, pc, width, height, font_size, font, wrapVars,
                   max_lines_per_image, image_lines, outcome>>
    /\ UNCHANGED <<justifyVars, botVars>>

\* line 456: bg_img was never bound because Image.open failed
RenderRaises ==
    /\ pc = "render"
    /\ img_index < Len(image_lines)
    /\ bg = "corrupt"
    /\ pc' = "done"
    /\ outcome' = "raised"
    /\ UNCHANGED <<inputVars, width, height, font_size, font, wrapVars, pageVars>>
    /\ UNCHANGED <<justifyVars, botVars>>

\* line 603
ReturnPaths ==
    /\ pc = "render"
    /\ img_index = Len(image_lines)
    /\ pc' = "done"
    /\ outcome' = "returned"
    /\ UNCHANGED <<inputVars, width, height, font_size, font, wrapVars, pageVars>>
    /\ UNCHANGED <<justifyVars, botVars>>

Next ==
    \/ BackgroundMissing
    \/ OpenBackground
    \/ TrySize
    \/ CheckMinimum
    \/ SkipMinimum
    \/ Paginate
    \/ PaginateRaises
    \/ RenderImage
    \/ RenderRaises
    \/ ReturnPaths

Spec == Init /\ [][Next]_vars

\* ------------------------------------------------------------------------
\* Properties
\* ------------------------------------------------------------------------
Returned == pc = "done" /\ outcome = "returned"

\* the page chunks have been computed
Paginated == pc = "render" \/ (pc = "done" /\ max_lines_per_image > 0)

Min(a, b) == IF a < b THEN a ELSE b

\* where line k of the wrapped sequence was placed: <<page, position>>
PlacementsOf(k) ==
    { e \in { <<p, i>> : p \in 1..Len(output_paths), i \in 1..max_lines_per_image } :
        /\ e[2] <= Len(output_paths[e[1]])
        /\ output_paths[e[1]][e[2]].global_line_idx = k }

\* C1: whenever create_text_image returns a non-empty result, every wrapped
\* line (title, blank and body) is placed on exactly one of the returned
\* pages: the final MAX_IMAGES truncation drops nothing.
C1_NoLineDropped ==
    (Returned /\ output_paths # <<>>) =>
        \A k \in 1..Len(wrapped_lines) : Cardinality(PlacementsOf(k)) = 1

\* the height slots taken by the lines of one returned page
PageSlots(page) == page[Len(page)].y + page[Len(page)].slot - page[1].y

\* C2: on every page of a non-empty result the height slots of the lines
\* placed on it sum to at most the usable page height.
C2_PageWithinHeight ==
    (Returned /\ output_paths # <<>>) =>
        \A p \in 1..Len(output_paths) :
            PageSlots(output_paths[p]) <= max_text_height_per_image

\* the lines of chunk k of a pagination by m lines per page
ChunkOf(k, m) == SubSeq(wrapped_lines, (k - 1) * m + 1, Min(k * m, Len(wrapped_lines)))

\* C3: pagination never yields more than MAX_IMAGES pages; page k holds the
\* k-th consecutive chunk of max_lines_per_image wrapped lines; no line is
\* dropped unless there are more than MAX_IMAGES chunks, and then exactly the
\* lines after the first MAX_IMAGES chunks are dropped.
C3_Pagination ==
    Paginated =>
        LET m == max_lines_per_image
            n == Len(wrapped_lines)
            chunks == (n + m - 1) \div m
        IN  /\ Len(image_lines) <= MAX_IMAGES
            /\ Len(image_lines) = Min(chunks, MAX_IMAGES)
            /\ \A k \in 1..Len(image_lines) : image_lines[k] = ChunkOf(k, m)
            /\ Len(output_paths) <= Len(image_lines)
            /\ Returned => Len(output_paths) = Len(image_lines)
            /\ \A p \in 1..Len(output_paths) :
                 /\ Len(output_paths[p]) = Len(ChunkOf(p, m))
                 /\ \A i \in 1..Len(output_paths[p]) :
                      /\ output_paths[p][i].line = wrapped_lines[(p - 1) * m + i]
                      /\ output_paths[p][i].global_line_idx = (p - 1) * m + i

\* a call that returned MAX_IMAGES pages after the truncation dropped lines
C3_Witness ==
    /\ Returned
    /\ Len(output_paths) = MAX_IMAGES
    /\ Len(wrapped_lines) > MAX_IMAGES * max_lines_per_image

\* the wrap of the document at body font size s on the canvas in use
WrapAt(s) == get_wrapped_text_and_height(full_text, s, TitleFontSize(s), max_text_width, width)

\* pages needed at body font size s: ceil(total height / usable height)
PagesAt(s) == (WrapAt(s).total_text_height + max_text_height_per_image - 1)
                  \div max_text_height_per_image

\* C4: if at MIN_FONT_SIZE the wrapped document needs more than MAX_IMAGES
\* pages, create_text_image returns the empty list: the call never reaches
\* pagination and produces no page, whatever size the search started from.
C4_TooLongReturnsEmpty ==
    (pc \in {"paginate", "render", "done"} /\ bg # "missing"
        /\ PagesAt(MIN_FONT_SIZE) > MAX_IMAGES) =>
        /\ Returned
        /\ output_paths = <<>>
        /\ image_lines = <<>>

\* a document of 200 words or more, whose search starts at MIN_FONT_SIZE
\* without entering the loop, rejected as too long
C4_Witness ==
    /\ Returned
    /\ bg = "ok"
    /\ Len(SplitWS(full_text)) >= 200
    /\ PagesAt(MIN_FONT_SIZE) > MAX_IMAGES
    /\ output_paths = <<>>

\* the band of the claim: fewer than 100 words, fewer than 200, otherwise
BandSize ==
    LET words == Len(SplitWS(full_text))
    IN  CASE words < 100 -> 110
          [] words >= 100 /\ words < 200 -> 90
          [] OTHER -> 80

\* C5: the search starts from the band of the word count of title and body,
\* the accepted size is the largest size between MIN_FONT_SIZE and that start
\* whose wrap needs at most MAX_IMAGES pages, and the lines, line height and
\* line_info handed to pagination and rendering are the wrap at that size.
C5_LargestFittingSize ==
    pc \in {"paginate", "render"} =>
        LET w == WrapAt(font)
        IN  /\ font_size = font
            /\ font >= MIN_FONT_SIZE
            /\ font <= BandSize
            /\ total_images_needed(w.total_text_height, max_text_height_per_image) <= MAX_IMAGES
            /\ \A s \in (font + 1)..BandSize : PagesAt(s) > MAX_IMAGES
            /\ wrapped_lines = w.lines
            /\ line_info = w.line_info
            /\ line_height = w.line_height
            /\ total_text_height = w.total_text_height

\* a document of the middle band accepted at a size found by decrementing
C5_Witness ==
    /\ pc = "paginate"
    /\ BandSize = 90
    /\ font > MIN_FONT_SIZE
    /\ font < 90

\* a wrap has been made: wrapped_lines, line_info and line_height are those
\* of get_wrapped_text_and_height at body font size font
Wrapped == line_height > 0

\* the wrap in the state was accepted and rendered into the returned pages
Accepted == Returned /\ output_paths # <<>>

\* the paragraphs the wrapper splits a body into
ParagraphsOf(body_part) == IF body_part = <<>> THEN <<>> ELSE Split(body_part, NL)

\* the lines of info after the title block (the title lines and one empty
\* line, when there is a title)
BodyInfoOf(info, title_part) ==
    LET titleLines == Cardinality({ i \in 1..Len(info) : info[i].is_title })
        blockLen   == IF title_part = <<>> THEN 0 ELSE titleLines + 1
    IN  SubSeq(info, blockLen + 1, Len(info))

RECURSIVE ConcatWords(_, _)
\* the words of the lines info[i..], in line order
ConcatWords(info, i) ==
    IF i > Len(info) THEN <<>> ELSE info[i].words \o ConcatWords(info, i + 1)

RECURSIVE GroupWords(_, _, _)
\* the words of the lines info[i..] grouped by paragraph: a group ends at the
\* line marked is_last_in_paragraph
GroupWords(info, i, current) ==
    IF i > Len(info) THEN (IF current = <<>> THEN <<>> ELSE <<current>>)
    ELSE IF info[i].is_last_in_paragraph
         THEN <<current \o info[i].words>> \o GroupWords(info, i + 1, <<>>)
         ELSE GroupWords(info, i + 1, current \o info[i].words)

\* the words of a paragraph: none for a blank one, else split on single spaces
WordsOfParagraph(p) == IF Strip(p) = <<>> THEN <<>> ELSE Split(p, SP)

IsTitleLine(l) == l.is_title

\* C6: in every wrap the words of the title lines, in line order, are the
\* words of the title, and for every paragraph the words of its lines, in
\* line order, are the words of the paragraph: no word is dropped,
\* duplicated or reordered (a blank paragraph gives one line without words).
C6_WordsPreserved ==
    Wrapped =>
        LET parsed     == parse_title_and_text(full_text)
            paragraphs == ParagraphsOf(parsed.body)
        IN  /\ ConcatWords(SelectSeq(line_info, IsTitleLine), 1) = SplitWS(parsed.title)
            /\ GroupWords(BodyInfoOf(line_info, parsed.title), 1, <<>>)
                 = [i \in 1..Len(paragraphs) |-> WordsOfParagraph(paragraphs[i])]
            /\ SelectSeq(ConcatWords(line_info, 1), NonEmpty) = SplitWS(full_text)

\* a wrap that broke a paragraph and the title over several lines
C6_Witness ==
    /\ Wrapped
    /\ \E i \in 1..Len(line_info) : line_info[i].is_title /\ ~line_info[i].is_last_in_paragraph
    /\ \E i \in 1..Len(line_info) :
         ~line_info[i].is_title /\ ~line_info[i].is_last_in_paragraph

\* the width the wrapper measures for a body line of these words, in quarter
\* pixels: the shaped single-space join at the body font
ShapedWidth(words) == textlength(process_arabic_text(Join(words, <<SP>>)), font)

\* the width the wrapper measures for a title line of these words
TitleWidth(words) == textlength(Join(words, <<SP>>), TitleFontSize(font))

LineFits(l) ==
    IF l.is_title THEN TitleWidth(l.words) <= 4 * TitleMaxWidth(width)
    ELSE ShapedWidth(l.words) <= 4 * max_text_width

\* C7 as stated: in the accepted wrap every non-empty line measures at most
\* the usable width (max_text_width for a body line, 0.7 of the canvas width
\* for a title line).
C7_EveryLineFits ==
    Accepted => \A i \in 1..Len(line_info) : ~line_info[i].is_empty => LineFits(line_info[i])

\* C7 as amended: in every wrap each line of two or more words measures at
\* most the usable width; a line that holds a single word may be wider.
C7_MultiWordLineFits ==
    Wrapped => \A i \in 1..Len(line_info) : Len(line_info[i].words) >= 2 => LineFits(line_info[i])

\* an accepted wrap with a body line of several words and a line of one word
\* that is wider than the usable width
C7_Witness ==
    /\ Accepted
    /\ \E i \in 1..Len(line_info) : ~line_info[i].is_title /\ Len(line_info[i].words) >= 2
    /\ \E i \in 1..Len(line_info) : Len(line_info[i].words) = 1 /\ ~LineFits(line_info[i])

\* line i of line_info is a body line that holds words
IsBodyLine(i) == ~line_info[i].is_title /\ ~line_info[i].is_empty

\* C8: body wrapping is greedy.  Every word after the first of a line was
\* appended because the shaped tentative line measured at most max_text_width;
\* a line not marked is_last_in_paragraph is followed by a line of the same
\* paragraph whose first word would have made it exceed max_text_width; and
\* each paragraph has exactly one line marked is_last_in_paragraph, its last.
C8_GreedyWrap ==
    Wrapped =>
        LET parsed     == parse_title_and_text(full_text)
            paragraphs == ParagraphsOf(parsed.body)
            body       == BodyInfoOf(line_info, parsed.title)
        IN  /\ \A i \in 1..Len(line_info) : IsBodyLine(i) =>
                  /\ \A k \in 2..Len(line_info[i].words) :
                        ShapedWidth(SubSeq(line_info[i].words, 1, k)) <= 4 * max_text_width
                  /\ ~line_info[i].is_last_in_paragraph =>
                        /\ i < Len(line_info)
                        /\ IsBodyLine(i + 1)
                        /\ ShapedWidth(Append(line_info[i].words, line_info[i + 1].words[1]))
                              > 4 * max_text_width
            /\ Cardinality({ i \in 1..Len(body) : body[i].is_last_in_paragraph })
                 = Len(paragraphs)
            /\ GroupWords(body, 1, <<>>)
                 = [i \in 1..Len(paragraphs) |-> WordsOfParagraph(paragraphs[i])]

\* a wrap with a closed line and a line that fills max_text_width exactly
C8_Witness ==
    /\ Wrapped
    /\ \E i \in 1..Len(line_info) : IsBodyLine(i) /\ ~line_info[i].is_last_in_paragraph
    /\ \E i \in 1..Len(line_info) :
         /\ IsBodyLine(i)
         /\ Len(line_info[i].words) >= 2
         /\ ShapedWidth(line_info[i].words) = 4 * max_text_width

\* C9: when the title passed to create_text_image is empty no title block is
\* emitted: no wrapped line is marked is_title and no line is drawn as a
\* title (title font, centred).
C9_EmptyTitleNoTitleBlock ==
    (Returned /\ title = <<>>) =>
        /\ \A i \in 1..Len(line_info) : ~line_info[i].is_title
        /\ \A p \in 1..Len(output_paths) :
             \A i \in 1..Len(output_paths[p]) : ~output_paths[p][i].is_title

\* C10: create_text_image returns an empty sequence if and only if the
\* content does not fit within MAX_IMAGES pages at MIN_FONT_SIZE; a missing
\* background image is not reported through the empty result.
C10_EmptyIffTooLong ==
    Returned =>
        /\ bg = "missing" => output_paths # <<>>
        /\ bg # "missing" => (output_paths = <<>> <=> PagesAt(MIN_FONT_SIZE) > MAX_IMAGES)

\* ------------------------------------------------------------------------
\* justify_line called on its own
\* ------------------------------------------------------------------------
\* most words of a line
MaxWords == 3

\* largest target width, in quarter pixels
MaxTarget == 40

\* words as str.split() leaves them: not empty, no whitespace inside
JustifyWordSet == { <<"a">>, <<"b", "b">>, <<"c", DOT>> }

RECURSIVE WordLists(_)
\* the lists of exactly n words
WordLists(n) ==
    IF n = 0 THEN { <<>> }
    ELSE { Append(l, w) : l \in WordLists(n - 1), w \in JustifyWordSet }

\* font sizes: a space measures size / 4 pixels
JustifyFonts == {1, 3}

JustifyInputs ==
    { [words |-> l, font |-> f, target_width |-> t] :
        l \in UNION { WordLists(n) : n \in 0..MaxWords },
        f \in JustifyFonts,
        t \in 0..MaxTarget }

InitJustify ==
    /\ justify_args \in JustifyInputs
    /\ justify_pc = "called"
    /\ justified_line = <<>>
    /\ BotIdle
    /\ title = <<>> /\ text = <<>> /\ bg = "ok" /\ canvas = FallbackCanvas
    /\ pc = "done"
    /\ width = 0 /\ height = 0
    /\ font_size = 0 /\ font = 0
    /\ wrapped_lines = <<>> /\ total_text_height = 0 /\ line_height = 0 /\ line_info = <<>>
    /\ max_lines_per_image = 0 /\ image_lines = <<>> /\ img_index = 0 /\ output_paths = <<>>
    /\ outcome = "returned"

\* lines 143-193: the call returns
JustifyLine ==
    /\ justify_pc = "called"
    /\ justified_line' = justify_line(justify_args.words, justify_args.font,
                                      justify_args.target_width)
    /\ justify_pc' = "returned"
    /\ UNCHANGED <<justify_args, layoutVars, botVars>>

NextJustify == JustifyLine

SpecJustify == InitJustify /\ [][NextJustify]_vars

\* the arguments and derived quantities of the call, as the code names them
JWords == justify_args.words
JGaps == Len(JWords) - 1
JSpaceWidth == textlength(<<SP>>, justify_args.font)
JNatural == textlength(Join(JWords, <<SP>>), justify_args.font)
JExtra == justify_args.target_width - SumWidths(JWords, 1, justify_args.font) - JGaps * JSpaceWidth
JExtraUnits == JExtra \div JSpaceWidth

JustifyReturned == justify_pc = "returned" /\ Len(JWords) >= 2

\* s with every run of spaces collapsed to a single space
CollapseSpaces(s) ==
    LET keep == { i \in 1..Len(s) : ~(s[i] = SP /\ i > 1 /\ s[i - 1] = SP) }
    IN  [k \in 1..Cardinality(keep) |->
            s[CHOOSE i \in keep : Cardinality({ j \in keep : j <= i }) = k]]

\* C11: for a list of two or more non-empty words, the string justify_line
\* returns, with every run of spaces collapsed to one space, is the
\* single-space join of the words: only the spacing between words changes.
C11_JustifyKeepsWords ==
    JustifyReturned => CollapseSpaces(justified_line) = Join(JWords, <<SP>>)

\* a call with three words that did add spaces
C11_Witness ==
    /\ JustifyReturned
    /\ Len(JWords) = 3
    /\ JWords[1] # JWords[3]
    /\ justified_line # Join(JWords, <<SP>>)

\* the lengths of the maximal runs of spaces of s, in order
SpaceRuns(s) ==
    LET starts == { i \in 1..Len(s) : s[i] = SP /\ (i = 1 \/ s[i - 1] # SP) }
        RunAt(i) == CHOOSE n \in 1..Len(s) :
                        /\ \A j \in i..(i + n - 1) : s[j] = SP
                        /\ (i + n > Len(s) \/ s[i + n] # SP)
    IN  [k \in 1..Cardinality(starts) |->
            RunAt(CHOOSE i \in starts : Cardinality({ j \in starts : j <= i }) = k)]

RECURSIVE SumSeq(_, _)
SumSeq(q, i) == IF i > Len(q) THEN 0 ELSE q[i] + SumSeq(q, i + 1)

\* C12: with extra = target - words - (n-1) spaces: if extra <= 0 the result
\* is the single-space join; otherwise gap i holds 1 + extraUnits div (n-1)
\* spaces, plus one iff i <= extraUnits mod (n-1).  So the gaps differ by at
\* most one, there are (n-1) + extraUnits spaces in all, and the result is
\* never narrower than the single-space join and, when extra > 0, never wider
\* than the target.
C12_SpaceDistribution ==
    JustifyReturned =>
        LET runs == SpaceRuns(justified_line)
            result_width == textlength(justified_line, justify_args.font)
        IN  /\ JExtra <= 0 => justified_line = Join(JWords, <<SP>>)
            /\ JExtra > 0 =>
                 /\ Len(runs) = JGaps
                 /\ \A i \in 1..JGaps :
                      runs[i] = 1 + JExtraUnits \div JGaps
                                + (IF i <= JExtraUnits % JGaps THEN 1 ELSE 0)
                 /\ \A i, j \in 1..JGaps : runs[i] - runs[j] <= 1
                 /\ SumSeq(runs, 1) = JGaps + JExtraUnits
                 /\ result_width <= justify_args.target_width
            /\ result_width >= JNatural

\* a call whose extra spaces do not divide evenly among two gaps
C12_Witness ==
    /\ JustifyReturned
    /\ Len(JWords) = 3
    /\ JExtra > 0
    /\ JExtraUnits \div JGaps >= 1
    /\ JExtraUnits % JGaps = 1
    /\ SpaceRuns(justified_line) = <<JExtraUnits \div JGaps + 2, JExtraUnits \div JGaps + 1>>

\* ------------------------------------------------------------------------
\* Properties of the placement of lines (create_text_image)
\* ------------------------------------------------------------------------
\* the kind of line k of the wrapped sequence, as line_info records it
KindOf(k) ==
    IF line_info[k].is_title THEN "Title"
    ELSE IF line_info[k].is_empty THEN "Blank"
    ELSE "Body"

\* the runs drawn on the returned pages
DrawnRuns ==
    { e \in UNION { { output_paths[p][i] : i \in 1..Len(output_paths[p]) } :
                    p \in 1..Len(output_paths) } : e.drawn }

Max(a, b) == IF a > b THEN a ELSE b

\* quarter pixels of the padding and of the usable width
LeftPad4 == 4 * left_padding
RightEdge4 == 4 * (width - right_padding)
Usable4 == 4 * (width - left_padding - right_padding)

\* the line before line k is Blank or a Title line
FollowsBlankOrTitle(k) == k > 1 /\ KindOf(k - 1) \in {"Blank", "Title"}

\* C13: a drawn body line is treated as the first line of a paragraph, and
\* gets the indent of four spaces, iff the line before it in the whole wrapped
\* sequence is Blank or a Title line.  An indented line that is justified is
\* justified to the usable width minus the indent and stays at the left
\* padding; an indented line that is edge-aligned is put at the right-aligned
\* x minus the indent, not left of the left padding.
C13_ParagraphIndent ==
    Returned =>
        \A e \in DrawnRuns :
            KindOf(e.global_line_idx) = "Body" =>
                LET indented == FollowsBlankOrTitle(e.global_line_idx)
                    indent   == IF indented THEN textlength(<<SP, SP, SP, SP>>, e.font) ELSE 0
                    shaped   == ReverseSentences(e.line)
                    right_x  == Max(LeftPad4, RightEdge4 - textlength(shaped, e.font))
                IN  /\ e.first = indented
                    /\ e.indent_width = indent
                    /\ e.justified =>
                         /\ e.text = justify_line(SplitWS(shaped), e.font, Usable4 - indent)
                         /\ e.x = LeftPad4
                    /\ e.branch = "right" =>
                         /\ e.text = shaped
                         /\ e.x = Max(LeftPad4, right_x - indent)

\* a returned page that starts with an indented edge-aligned line which the
\* clamp does not touch, in a document that also has an indented line with
\* spaces added by the justification
C13_Witness ==
    /\ Returned
    /\ \E p \in 2..Len(output_paths) :
         /\ output_paths[p][1].drawn
         /\ output_paths[p][1].first
         /\ output_paths[p][1].branch = "right"
         /\ output_paths[p][1].x > LeftPad4
         /\ output_paths[p][1].x < RightEdge4 - output_paths[p][1].line_width
    /\ \E e \in DrawnRuns :
         /\ e.first
         /\ e.justified
         /\ e.text # ReverseSentences(e.line)

\* the words of a line that show: str.split() of the line
VisibleWords(line) == SplitWS(line)

\* C14: a body line that is not last in its paragraph and has two or more
\* words is justified and anchored at the left padding; a body line that is
\* last in its paragraph or has a single word is not justified and is
\* anchored at canvas width - right padding - line width, not left of the
\* left padding (and moved by the indent of C13); a title line is centred
\* between the paddings, not left of the left padding.  Every drawn run has
\* x >= left padding.
C14_Anchors ==
    Returned =>
        \A e \in DrawnRuns :
            LET info    == line_info[e.global_line_idx]
                shaped  == ReverseSentences(e.line)
                lw      == textlength(shaped, e.font)
                indent  == IF FollowsBlankOrTitle(e.global_line_idx)
                           THEN textlength(<<SP, SP, SP, SP>>, e.font) ELSE 0
                several == Len(VisibleWords(e.line)) >= 2
            IN  /\ e.x >= LeftPad4
                /\ KindOf(e.global_line_idx) = "Title" =>
                     e.x = Max(LeftPad4, LeftPad4 + 4 * ((Usable4 - lw) \div 8))
                /\ (KindOf(e.global_line_idx) = "Body" /\ ~info.is_last_in_paragraph /\ several) =>
                     /\ e.x = LeftPad4
                     /\ e.text = justify_line(SplitWS(shaped), e.font, Usable4 - indent)
                /\ (KindOf(e.global_line_idx) = "Body" /\ (info.is_last_in_paragraph \/ ~several)) =>
                     /\ e.text = shaped
                     /\ e.x = Max(LeftPad4, Max(LeftPad4, RightEdge4 - lw) - indent)

\* the number of Title lines at the head of the wrapped sequence
TitleBlockLen(info) ==
    CHOOSE k \in 0..Len(info) :
        /\ \A i \in 1..k : info[i].is_title
        /\ k = Len(info) \/ ~info[k + 1].is_title

\* C15: in every wrap of a document with a title, the Title lines come first
\* (there is at least one), exactly one Blank line follows them (the line
\* after it, if any, is a Body line), and no Title line comes after a Blank
\* or Body line; also when the body is empty or begins with newlines.
C15_TitleBlockFirst ==
    (Wrapped /\ Strip(title) # <<>>) =>
        LET k == TitleBlockLen(line_info)
        IN  /\ k >= 1
            /\ Len(line_info) >= k + 1
            /\ line_info[k + 1].is_empty
            /\ Len(line_info) >= k + 2 => ~line_info[k + 2].is_empty
            /\ \A i \in (k + 1)..Len(line_info) : ~line_info[i].is_title
            /\ \A i \in 1..Len(line_info) :
                 (~line_info[i].is_title /\ ~line_info[i].is_empty) => i >= k + 2

\* a wrap with two Title lines, the Blank line, and body lines of two
\* paragraphs with a Blank line between them
C15_Witness ==
    /\ Wrapped
    /\ Strip(title) # <<>>
    /\ TitleBlockLen(line_info) = 2
    /\ Len(line_info) >= 6
    /\ \E i \in 5..(Len(line_info) - 1) :
         line_info[i].is_empty /\ ~line_info[i - 1].is_empty /\ ~line_info[i + 1].is_empty

\* ------------------------------------------------------------------------
\* The bot: handle_message and the polling loop of main
\* ------------------------------------------------------------------------
MAX_WORDS == 700

\* most updates the server is sent
MaxUpdates == 4

\* last_update_id = None (line 744); "if offset:" sends no offset for it
None == 0

Chats == {"c1", "c2"}

\* A text is held in the state by its name; characters gives the text
\* itself, one character per element.
StartCommand == "/start"
HelpCommand == "/help"
UnknownCommand == "/x"
ShortText == "t"
LongestBody == "MAX_WORDS words"
TooLongBody == "MAX_WORDS + 1 words"
NoText == ""

\* the texts a message carries
MessageTexts ==
    { StartCommand, HelpCommand, UnknownCommand, ShortText, LongestBody, TooLongBody, NoText }

characters ==
    [x \in MessageTexts |->
        CASE x = StartCommand -> <<"/", "s", "t", "a", "r", "t">>
          [] x = HelpCommand -> <<"/", "h", "e", "l", "p">>
          [] x = UnknownCommand -> <<"/", "x">>
          [] x = ShortText -> <<"t">>
          [] x = LongestBody -> WordsOf(MAX_WORDS)
          [] x = TooLongBody -> WordsOf(MAX_WORDS + 1)
          [] x = NoText -> <<>>]

\* the values of user_states.get(chat_id): no key, {} (line 684),
\* {'step': 'waiting_title'} (lines 657, 765), {'step': 'waiting_text',
\* 'title': text} (line 669)
Absent == [step |-> "absent", title |-> NoText]
NoStep == [step |-> "none", title |-> NoText]
WaitingTitle == [step |-> "waiting_title", title |-> NoText]
WaitingText(t) == [step |-> "waiting_text", title |-> t]

\* len(text.split()) (line 678), tabulated for the texts above
word_count == [x \in MessageTexts |-> Len(SplitWS(characters[x]))]

\* text.startswith('/')
IsCommand(t) == characters[t] # <<>> /\ characters[t][1] = "/"

Message(chat, t) == [kind |-> "message", chat |-> chat, text |-> t, data |-> ""]
CallbackQuery(chat, data) == [kind |-> "callback_query", chat |-> chat, text |-> NoText, data |-> data]

\* an update with neither 'message' nor 'callback_query'
OtherUpdate == [kind |-> "other", chat |-> "c1", text |-> NoText, data |-> ""]

\* what the users send
Payloads ==
    { Message("c1", t) : t \in MessageTexts \ {NoText} }
    \cup { CallbackQuery("c2", "start"), Message("c2", ShortText),
           CallbackQuery("c2", "other"), OtherUpdate }

InitBot ==
    /\ user_states = [c \in Chats |-> Absent]
    /\ server = <<>>
    /\ last_update_id = None
    /\ batch = <<>>
    /\ main_pc = "poll"
    /\ handled = <<>>
    /\ calls = <<>>
    /\ JustifyIdle
    /\ title = <<>> /\ text = <<>> /\ bg = "ok" /\ canvas = FallbackCanvas
    /\ pc = "done"
    /\ width = 0 /\ height = 0
    /\ font_size = 0 /\ font = 0
    /\ wrapped_lines = <<>> /\ total_text_height = 0 /\ line_height = 0 /\ line_info = <<>>
    /\ max_lines_per_image = 0 /\ image_lines = <<>> /\ img_index = 0 /\ output_paths = <<>>
    /\ outcome = "returned"

\* a user sends something: the server gives it the next update_id.  What
\* arrives while main iterates is seen by the next get_updates only, so
\* arrivals are taken between polls.
Arrive ==
    /\ main_pc = "poll"
    /\ Len(server) < MaxUpdates
    /\ \E p \in Payloads :
         server' = Append(server, [update_id |-> Len(server) + 1, kind |-> p.kind,
                                   chat |-> p.chat, text |-> p.text, data |-> p.data])
    /\ UNCHANGED <<user_states, last_update_id, batch, main_pc, handled, calls,
                   layoutVars, justifyVars>>

\* what the server returns for get_updates(offset): the updates with
\* update_id >= offset, in increasing order; all of them without offset
Pending(offset) ==
    LET Wanted(u) == offset = None \/ u.update_id >= offset
    IN  SelectSeq(server, Wanted)

\* lines 749-752: get_updates returned updates
GetUpdates ==
    /\ main_pc = "poll"
    /\ Pending(last_update_id) # <<>>
    /\ batch' = Pending(last_update_id)
    /\ main_pc' = "iterate"
    /\ UNCHANGED <<user_states, server, last_update_id, handled, calls, layoutVars, justifyVars>>

\* lines 751, 769-773: no result, 'ok' false, or the request raised; main
\* sleeps and polls again
GetUpdatesNothing ==
    /\ main_pc = "poll"
    /\ UNCHANGED vars

\* the offset is moved only once the handler has returned
OffsetAfter_WhenReturned(update, raises) ==
    IF raises THEN last_update_id ELSE update.update_id + 1

\* line 754, before the handler is called: a handler that raises leaves it set
OffsetAfter(update, raises) == update.update_id + 1

\* lines 752-773: the loop takes up the next update of the batch; when the
\* handler raises, the rest of the batch is left and main polls again
Take(update, raises) ==
    /\ last_update_id' = OffsetAfter(update, raises)
    /\ handled' = Append(handled, update.update_id)
    /\ batch' = IF raises THEN <<>> ELSE Tail(batch)
    /\ main_pc' = IF batch' = <<>> THEN "poll" ELSE "iterate"
    /\ UNCHANGED <<server, layoutVars, justifyVars>>

Taking(kind) == main_pc = "iterate" /\ batch # <<>> /\ batch[1].kind = kind

\* lines 655-658, 661
HandleStart ==
    /\ Taking("message")
    /\ batch[1].text = StartCommand
    /\ user_states' = [user_states EXCEPT ![batch[1].chat] = WaitingTitle]
    /\ \E raises \in BOOLEAN : Take(batch[1], raises)
    /\ UNCHANGED calls

\* lines 659-661
HandleHelp ==
    /\ Taking("message")
    /\ batch[1].text = HelpCommand
    /\ \E raises \in BOOLEAN : Take(batch[1], raises)
    /\ UNCHANGED <<user_states, calls>>

\* lines 654, 661: any other command
HandleOtherCommand ==
    /\ Taking("message")
    /\ IsCommand(batch[1].text)
    /\ batch[1].text \notin {StartCommand, HelpCommand}
    /\ Take(batch[1], FALSE)
    /\ UNCHANGED <<user_states, calls>>

\* lines 667-671
HandleTitle ==
    /\ Taking("message")
    /\ ~IsCommand(batch[1].text)
    /\ user_states[batch[1].chat].step = "waiting_title"
    /\ user_states' = [user_states EXCEPT ![batch[1].chat] = WaitingText(batch[1].text)]
    /\ \E raises \in BOOLEAN : Take(batch[1], raises)
    /\ UNCHANGED calls

\* a limit that refuses a body of MAX_WORDS words
TooManyWords_Inclusive(n) == n >= MAX_WORDS

\* word_count > MAX_WORDS (line 679)
TooManyWords(n) == n > MAX_WORDS

\* lines 673-681
HandleBodyTooLong ==
    /\ Taking("message")
    /\ ~IsCommand(batch[1].text)
    /\ user_states[batch[1].chat].step = "waiting_text"
    /\ TooManyWords(word_count[batch[1].text])
    /\ \E raises \in BOOLEAN : Take(batch[1], raises)
    /\ UNCHANGED <<user_states, calls>>

\* the state is kept after a body
AfterBody_Kept(user_state) == user_state

\* user_states[chat_id] = {} (line 684)
AfterBody(user_state) == NoStep

\* lines 673-714: the body is accepted.  send_message of line 687 may raise
\* before create_text_image is called; what create_text_image raises is
\* caught (line 712), what the sends after it raise is not
HandleBody ==
    /\ Taking("message")
    /\ ~IsCommand(batch[1].text)
    /\ user_states[batch[1].chat].step = "waiting_text"
    /\ ~TooManyWords(word_count[batch[1].text])
    /\ user_states' = [user_states EXCEPT ![batch[1].chat] = AfterBody(@)]
    /\ \E stage \in {"returns", "raises_before", "raises_after"} :
         /\ calls' = IF stage = "raises_before" THEN calls
                     ELSE Append(calls, [update_id |-> batch[1].update_id,
                                         chat |-> batch[1].chat,
                                         title |-> user_states[batch[1].chat].title,
                                         text |-> batch[1].text])
         /\ Take(batch[1], stage # "returns")

\* lines 716-718
HandleNotStarted ==
    /\ Taking("message")
    /\ ~IsCommand(batch[1].text)
    /\ user_states[batch[1].chat].step \in {"absent", "none"}
    /\ \E raises \in BOOLEAN : Take(batch[1], raises)
    /\ UNCHANGED <<user_states, calls>>

\* lines 760-766
CallbackStart ==
    /\ Taking("callback_query")
    /\ batch[1].data = "start"
    /\ user_states' = [user_states EXCEPT ![batch[1].chat] = WaitingTitle]
    /\ \E raises \in BOOLEAN : Take(batch[1], raises)
    /\ UNCHANGED calls

\* line 763 false
CallbackOther ==
    /\ Taking("callback_query")
    /\ batch[1].data # "start"
    /\ Take(batch[1], FALSE)
    /\ UNCHANGED <<user_states, calls>>

\* lines 757, 760 both false
SkipUpdate ==
    /\ Taking("other")
    /\ Take(batch[1], FALSE)
    /\ UNCHANGED <<user_states, calls>>

NextBot ==
    \/ Arrive
    \/ GetUpdates
    \/ GetUpdatesNothing
    \/ HandleStart
    \/ HandleHelp
    \/ HandleOtherCommand
    \/ HandleTitle
    \/ HandleBodyTooLong
    \/ HandleBody
    \/ HandleNotStarted
    \/ CallbackStart
    \/ CallbackOther
    \/ SkipUpdate

SpecBot == InitBot /\ [][NextBot]_vars

\* ------------------------------------------------------------------------
\* Properties of the bot
\* ------------------------------------------------------------------------
\* update u resets chat c to 'waiting_title': /start or the 'start' button
IsStartFor(u, c) ==
    /\ u.chat = c
    /\ \/ u.kind = "message" /\ u.text = StartCommand
       \/ u.kind = "callback_query" /\ u.data = "start"

\* update u is a message of chat c that is no command
IsPlainFor(u, c) == u.kind = "message" /\ u.chat = c /\ ~IsCommand(u.text)

\* the updates i..j neither restart chat c nor bring it a message that is
\* no command, except bodies over the word limit when overlong is TRUE
QuietFor(c, i, j, overlong) ==
    \A k \in i..j :
        /\ ~IsStartFor(server[k], c)
        /\ IsPlainFor(server[k], c) => (overlong /\ word_count[server[k].text] > MAX_WORDS)

\* update b of chat c closes a conversation /start, title, body in which
\* the title message carried t
IsBodyOfConversation(c, t, b) ==
    \E a \in 1..(b - 1) : \E s \in 1..(a - 1) :
        /\ IsStartFor(server[s], c)
        /\ QuietFor(c, s + 1, a - 1, FALSE)
        /\ IsPlainFor(server[a], c) /\ server[a].text = t
        /\ QuietFor(c, a + 1, b - 1, TRUE)
        /\ IsPlainFor(server[b], c)

\* every call of create_text_image closes a conversation, and a chat that
\* waits for its body has seen /start and then one message, its title
C16_Trace ==
    /\ \A k \in 1..Len(calls) :
         /\ calls[k].update_id \in 1..Len(handled)
         /\ server[calls[k].update_id].text = calls[k].text
         /\ IsBodyOfConversation(calls[k].chat, calls[k].title, calls[k].update_id)
         /\ \A j \in 1..(k - 1) : calls[j].update_id < calls[k].update_id
    /\ \A c \in Chats :
         user_states[c].step = "waiting_text" =>
             \E a \in 1..Len(handled) : \E s \in 1..(a - 1) :
                 /\ IsStartFor(server[s], c)
                 /\ QuietFor(c, s + 1, a - 1, FALSE)
                 /\ IsPlainFor(server[a], c) /\ server[a].text = user_states[c].title
                 /\ QuietFor(c, a + 1, Len(handled), TRUE)

\* one step of the loop: the other chats keep their state, a command other
\* than /start changes no state, and an accepted body resets its chat
C16_Step ==
    handled' # handled =>
        LET u == batch[1]
        IN  /\ \A c \in Chats \ {u.chat} : user_states'[c] = user_states[c]
            /\ (u.kind = "message" /\ IsCommand(u.text) /\ u.text # StartCommand) =>
                 user_states' = user_states
            /\ u.kind = "other" => user_states' = user_states
            /\ calls' # calls => user_states'[u.chat] = NoStep

\* C16: per chat the conversation goes /start (or the 'start' button), one
\* message that is stored as the title, one body: create_text_image is called
\* only for a message that is no command and reaches a chat in 'waiting_text',
\* with the stored title unchanged; the accepted body resets the chat, so a
\* further message starts nothing before a new /start; handling an update of
\* one chat leaves the other chats' states alone, and /help or an unknown
\* command changes no state.
C16_Conversation == [](C16_Trace) /\ [][C16_Step]_vars

\* chat c1 went through /start, title, body, and a further message of c1
\* that is no command was handled without a second call
C16_Witness ==
    /\ Len(calls) = 1
    /\ calls[1].chat = "c1"
    /\ calls[1].title = ShortText
    /\ \E i \in 1..Len(handled) :
         /\ i > calls[1].update_id
         /\ IsPlainFor(server[i], "c1")
    /\ user_states["c1"] = NoStep

\* C17: a body of more than MAX_WORDS words sent to a chat in 'waiting_text'
\* is refused: create_text_image is not called and the chat keeps its step
\* and title, so the body sent next is rendered with the same title; a body
\* of exactly MAX_WORDS words is accepted: the chat is reset and
\* create_text_image is called with the stored title, unless the send at
\* line 687 raised first.
C17_WordLimit ==
    [][ (handled' # handled /\ IsPlainFor(batch[1], batch[1].chat)
         /\ user_states[batch[1].chat].step = "waiting_text") =>
            LET u == batch[1]
                n == word_count[u.text]
            IN  /\ n > MAX_WORDS =>
                     (calls' = calls /\ user_states' = user_states)
                /\ n <= MAX_WORDS =>
                     /\ user_states'[u.chat] = NoStep
                     /\ \/ calls' = Append(calls, [update_id |-> u.update_id, chat |-> u.chat,
                                                   title |-> user_states[u.chat].title,
                                                   text |-> u.text])
                        \/ calls' = calls /\ batch' = <<>> ]_vars

\* after /start and the title, a body of MAX_WORDS + 1 words was refused and
\* the body of MAX_WORDS words sent next was rendered with that title
C17_Witness ==
    /\ Len(calls) = 1
    /\ calls[1].update_id = 4
    /\ word_count[calls[1].text] = MAX_WORDS
    /\ calls[1].title = server[2].text
    /\ IsPlainFor(server[3], calls[1].chat)
    /\ word_count[server[3].text] = MAX_WORDS + 1
    /\ IsStartFor(server[1], calls[1].chat)

\* the update_ids taken up, each larger than the one before
InOrderOnce(ids) == \A i \in 1..(Len(ids) - 1) : ids[i] < ids[i + 1]

\* C18: last_update_id never decreases, and it is set to update_id + 1 when
\* the loop takes an update up, whether or not the handler raises; with a
\* server that returns the updates from the offset on in increasing order,
\* every update is taken up at most once and in update_id order.
C18_AckBeforeHandle ==
    /\ [](InOrderOnce(handled))
    /\ [][ /\ last_update_id' >= last_update_id
           /\ handled' # handled =>
                /\ handled' = Append(handled, batch[1].update_id)
                /\ last_update_id' = batch[1].update_id + 1
           /\ handled' = handled => last_update_id' = last_update_id ]_vars

\* a handler raised (the body of chat c1 was accepted, yet no call was made)
\* and the loop went on with the updates after it
C18_Witness ==
    /\ handled = <<1, 2, 3, 4>>
    /\ calls = <<>>
    /\ IsPlainFor(server[3], "c1")
    /\ server[4].chat = "c1"
    /\ user_states["c1"] = NoStep
    /\ last_update_id = 5

====
